---- MODULE Spec2Model ----
(***************************************************************************)
(* Layout-aware text reconstruction of the PDF conversion page             *)
(* (ConvertPage): groupIntoLines, detectColumns, assignCol and the table   *)
(* builder of convertToExcel.                                              *)
(*                                                                         *)
(* A JavaScript string is a sequence of one-character strings, so that     *)
(* trim, join and length are computed and not assumed.  A TextItem is the  *)
(* record [str, x, y]; its width and height are written once by the        *)
(* extractor and read by no operation of the page, and are left out.       *)
(*                                                                         *)
(* SpecFn applies groupIntoLines, detectColumns, assignCol and the grid    *)
(* loop once each to arguments drawn from bounded sets.  SpecTable runs    *)
(* convertToExcel on a document: extraction page by page, then the loop    *)
(* over pages that appends the sheets.                                     *)
(***************************************************************************)
EXTENDS Integers, Sequences, FiniteSets, TLC

VARIABLES
    pc,         \* which operation has run: "idle" before any
    items,      \* groupIntoLines: the argument items
    tolerance,  \* groupIntoLines: the argument tolerance
    lines,      \* TextItem[][]: result of groupIntoLines, argument of detectColumns
    cols,       \* number[]: result of detectColumns, argument of assignCol
    x,          \* assignCol: the argument x
    best,       \* assignCol: the returned index (0-based, as in the source)
    grid,       \* string[][]: the grid of one page
    doc,        \* the PDF document: one list of raw text items per page
    pages,      \* TextItem[][]: one fragment list per extracted page
    wb,         \* the workbook: the sheets appended, in order
    file,       \* the File: null, or its name and its document
    docParagraphs,  \* convertToWord: the paragraphs pushed, in order
    mode,       \* ConvertPage: "word" or "excel"
    fileName,   \* ConvertPage: the name shown, "" when no file
    status,     \* ConvertPage: "idle", "loading", "done" or "error"
    errorMsg,   \* ConvertPage: the message shown when status is "error"
    downloadUrl,    \* ConvertPage: null, or the blob the URL was made for
    downloadName,   \* ConvertPage: the download attribute of the link
    calls,      \* the calls of convert that have not returned, oldest first
    started,    \* the number of calls of convert so far
    outcomes    \* history: how each call of convert that returned ended

fnVars == <<items, tolerance, lines, cols, x, best, grid>>
docVars == <<doc, pages, wb>>
wordVars == <<file, docParagraphs>>
uiVars == <<mode, fileName, status, errorMsg, downloadUrl, downloadName,
            calls, started, outcomes>>
vars == <<pc, items, tolerance, lines, cols, x, best, grid, doc, pages, wb,
          file, docParagraphs, mode, fileName, status, errorMsg, downloadUrl,
          downloadName, calls, started, outcomes>>

----------------------------------------------------------------------------
(* Bounds of the model *)

MaxItems == 3       \* fragments in one argument list
MaxXs == 4          \* fragments in an argument of detectColumns
MaxCols == 3        \* columns in an argument of assignCol
MaxPages == 3       \* pages of a document
MaxPageItems == 2   \* raw text items on a page of a document
MaxLineItems == 4   \* fragments of one line of a flow page
MaxRows == 2        \* rows of a grid given to the column widths
MaxUiPages == 2     \* pages of a file loaded into the page
MaxConverts == 2    \* calls of convert in one behaviour

(* Constants of the program *)

FlowTolerance == 5      \* groupIntoLines(items, tolerance = 5)
ShortTextLength == 60   \* text.length < 60
ShortLineItems == 3     \* line.length <= 3
ShortSize == 24         \* size: isShort ? 24 : 20
BodySize == 20
TableTolerance == 8     \* groupIntoLines(pages[p], 8)
ColumnGap == 20         \* x - cols[cols.length - 1] > 20
MinColWidth == 10       \* Math.max(10, ...)
MaxColWidth == 50       \* Math.min(50, ...)

----------------------------------------------------------------------------
(* Helpers *)

\* null is the empty tuple and a value v that may be null is <<v>>, so that
\* the two compare
Null == <<>>
Some(v) == <<v>>

Abs(n) == IF n < 0 THEN -n ELSE n

Range(s) == {s[i] : i \in 1..Len(s)}

SeqsUpTo(S, n) == UNION {[1..k -> S] : k \in 0..n}

\* number of occurrences of e in the sequence s
Count(e, s) == Cardinality({i \in 1..Len(s) : s[i] = e})

RECURSIVE Flatten(_)
Flatten(ls) == IF ls = <<>> THEN <<>> ELSE Head(ls) \o Flatten(Tail(ls))

----------------------------------------------------------------------------
(* groupIntoLines *)

\* (a, b) => a.y - b.y || a.x - b.x
CmpYX(a, b) == IF a.y - b.y # 0 THEN a.y - b.y ELSE a.x - b.x

\* (a, b) => a.x - b.x
CmpX(a, b) == a.x - b.x

\* Array.prototype.sort is stable: an element goes after every element that
\* does not compare greater than it.
InsertYX(e, t) ==
    LET k == Cardinality({i \in 1..Len(t) : CmpYX(t[i], e) <= 0})
    IN  SubSeq(t, 1, k) \o <<e>> \o SubSeq(t, k + 1, Len(t))

RECURSIVE SortYX_rec(_)
SortYX_rec(s) ==
    IF s = <<>> THEN <<>>
    ELSE InsertYX(s[Len(s)], SortYX_rec(SubSeq(s, 1, Len(s) - 1)))

SortYX_none(s) == s

\* [...items].sort((a, b) => a.y - b.y || a.x - b.x)
SortYX(s) == SortYX_rec(s)

InsertX(e, t) ==
    LET k == Cardinality({i \in 1..Len(t) : CmpX(t[i], e) <= 0})
    IN  SubSeq(t, 1, k) \o <<e>> \o SubSeq(t, k + 1, Len(t))

RECURSIVE SortX_rec(_)
SortX_rec(s) ==
    IF s = <<>> THEN <<>>
    ELSE InsertX(s[Len(s)], SortX_rec(SubSeq(s, 1, Len(s) - 1)))

SortX_none(line) == line

\* line.sort((a, b) => a.x - b.x)
SortX(line) == SortX_rec(line)

SameLine_prev(item, lastLine, tol) ==
    Abs(item.y - lastLine[Len(lastLine)].y) <= tol

\* Math.abs(item.y - lastLine[0].y) <= tolerance
SameLine(item, lastLine, tol) == Abs(item.y - lastLine[1].y) <= tol

\* the loop over sorted: acc is the array lines built so far
RECURSIVE GroupLoop(_, _, _)
GroupLoop(sorted, tol, acc) ==
    IF sorted = <<>> THEN acc
    ELSE LET item == Head(sorted)
             n    == Len(acc)
         IN  IF n > 0 /\ SameLine(item, acc[n], tol)
             THEN GroupLoop(Tail(sorted), tol,
                            [acc EXCEPT ![n] = Append(@, item)])
             ELSE GroupLoop(Tail(sorted), tol, Append(acc, <<item>>))

\* the loop started at index 1 instead of 0
groupIntoLines_skipFirst(its, tol) ==
    LET sorted == SortYX(its)
        ls == IF sorted = <<>> THEN <<>> ELSE GroupLoop(Tail(sorted), tol, <<>>)
    IN  [i \in 1..Len(ls) |-> SortX(ls[i])]

groupIntoLines(its, tol) ==
    LET ls == GroupLoop(SortYX(its), tol, <<>>)
    IN  [i \in 1..Len(ls) |-> SortX(ls[i])]


----------------------------------------------------------------------------
(* detectColumns *)

\* the x of the first fragment of each line only
XPositions_lineStarts(ls) == [i \in 1..Len(ls) |-> ls[i][1].x]

\* lines.flatMap((l) => l.map((i) => i.x))
XPositions(ls) == LET f == Flatten(ls) IN [i \in 1..Len(f) |-> f[i].x]

Min(S) == CHOOSE m \in S : \A n \in S : m <= n

RECURSIVE Ascending(_)
Ascending(S) ==
    IF S = {} THEN <<>> ELSE <<Min(S)>> \o Ascending(S \ {Min(S)})

\* the distinct values in the order of their first occurrence, not sorted
RECURSIVE SortedDistinct_unsorted(_)
SortedDistinct_unsorted(xs) ==
    IF xs = <<>> THEN <<>>
    ELSE LET rest == SortedDistinct_unsorted(SubSeq(xs, 1, Len(xs) - 1))
             last == xs[Len(xs)]
         IN IF last \in Range(rest) THEN rest ELSE Append(rest, last)

\* [...new Set(xPositions)].sort((a, b) => a - b)
SortedDistinct(xs) == Ascending(Range(xs))

NewColumn_atLeast(xv, cs) == Len(cs) = 0 \/ xv - cs[Len(cs)] >= ColumnGap

\* cols.length === 0 || x - cols[cols.length - 1] > 20
NewColumn(xv, cs) == Len(cs) = 0 \/ xv - cs[Len(cs)] > ColumnGap

\* an absorbed x replaces the representative of its column
RECURSIVE ColsLoop_lastSeen(_, _)
ColsLoop_lastSeen(sorted, cs) ==
    IF sorted = <<>> THEN cs
    ELSE IF NewColumn(Head(sorted), cs)
         THEN ColsLoop_lastSeen(Tail(sorted), Append(cs, Head(sorted)))
         ELSE ColsLoop_lastSeen(Tail(sorted), [cs EXCEPT ![Len(cs)] = Head(sorted)])

\* for (const x of sorted) if (...) cols.push(x)
RECURSIVE ColsLoop(_, _)
ColsLoop(sorted, cs) ==
    IF sorted = <<>> THEN cs
    ELSE IF NewColumn(Head(sorted), cs)
         THEN ColsLoop(Tail(sorted), Append(cs, Head(sorted)))
         ELSE ColsLoop(Tail(sorted), cs)

detectColumns(ls) == ColsLoop(SortedDistinct(XPositions(ls)), <<>>)

----------------------------------------------------------------------------
(* assignCol *)

\* bestDist: Infinity, or a distance
Infinity == [inf |-> TRUE, d |-> 0]
Dist(n) == [inf |-> FALSE, d |-> n]

Closer_orEqual(d, bestDist) == bestDist.inf \/ d <= bestDist.d

\* d < bestDist
Closer(d, bestDist) == bestDist.inf \/ d < bestDist.d

\* the distance is taken without Math.abs
RECURSIVE AssignLoop_signed(_, _, _, _, _)
AssignLoop_signed(xv, cs, i, b, bestDist) ==
    IF i >= Len(cs) THEN b
    ELSE LET d == xv - cs[i + 1]
         IN  IF Closer(d, bestDist)
             THEN AssignLoop_signed(xv, cs, i + 1, i, Dist(d))
             ELSE AssignLoop_signed(xv, cs, i + 1, b, bestDist)

\* the loop for (let i = 0; i < cols.length; i++); cols[i] is cs[i + 1]
RECURSIVE AssignLoop(_, _, _, _, _)
AssignLoop(xv, cs, i, b, bestDist) ==
    IF i >= Len(cs) THEN b
    ELSE LET d == Abs(xv - cs[i + 1])
         IN  IF Closer(d, bestDist)
             THEN AssignLoop(xv, cs, i + 1, i, Dist(d))
             ELSE AssignLoop(xv, cs, i + 1, b, bestDist)

\* the loop starts at the second column
assignCol_fromSecond(xv, cs) == AssignLoop(xv, cs, 1, 0, Infinity)

\* let best = 0, bestDist = Infinity, then the loop from i = 0
assignCol(xv, cs) == AssignLoop(xv, cs, 0, 0, Infinity)

----------------------------------------------------------------------------
(* Strings *)

Chr(c) == <<c>>

WhiteSpace == {" "}

RECURSIVE TrimStart(_)
TrimStart(s) ==
    IF s # <<>> /\ Head(s) \in WhiteSpace THEN TrimStart(Tail(s)) ELSE s

RECURSIVE TrimEnd(_)
TrimEnd(s) ==
    IF s # <<>> /\ s[Len(s)] \in WhiteSpace
    THEN TrimEnd(SubSeq(s, 1, Len(s) - 1)) ELSE s

\* String.prototype.trim
Trim(s) == TrimEnd(TrimStart(s))

----------------------------------------------------------------------------
(* The grid of one page: convertToExcel, the body of the loop over pages *)

\* the new text is put before the text of the cell
PutCell_prepend(row, col, str) ==
    [row EXCEPT ![col + 1] = IF @ # <<>> THEN str \o Chr(" ") \o @ ELSE str]

\* row[col] = row[col] ? row[col] + " " + item.str : item.str
PutCell(row, col, str) ==
    [row EXCEPT ![col + 1] = IF @ # <<>> THEN @ \o Chr(" ") \o str ELSE str]

\* for (const item of line) { const col = assignCol(item.x, cols); ... }
RECURSIVE FillRow(_, _, _)
FillRow(row, line, cs) ==
    IF line = <<>> THEN row
    ELSE FillRow(PutCell(row, assignCol(Head(line).x, cs), Head(line).str),
                 Tail(line), cs)

\* const row = Array(cols.length).fill(""), then the loop over the line
BuildRow(line, cs) == FillRow([c \in 1..Len(cs) |-> <<>>], line, cs)

KeepRow_always(row) == TRUE

\* row.every in place of row.some
KeepRow_everyCell(row) == \A c \in 1..Len(row) : Trim(row[c]) # <<>>

\* row.some((c) => c.trim())
KeepRow(row) == \E c \in 1..Len(row) : Trim(row[c]) # <<>>

\* for (const line of lines) { ...; if (row.some(...)) grid.push(row) }
RECURSIVE GridLoop(_, _, _)
GridLoop(ls, cs, g) ==
    IF ls = <<>> THEN g
    ELSE LET row == BuildRow(Head(ls), cs)
         IN  GridLoop(Tail(ls), cs, IF KeepRow(row) THEN Append(g, row) ELSE g)

PageGrid(ls, cs) == GridLoop(ls, cs, <<>>)

----------------------------------------------------------------------------
(* extractTextItems: raw coordinates are in half units, so that rounding   *)
(* has something to round                                                  *)

\* Math.round of n half units: halves round up
Round(n) == (n + 1) \div 2

\* "str" in item && item.str.trim()
KeepItem(item) == Trim(item.str) # <<>>

\* { str, x: Math.round(tx[4]), y: Math.round(viewport.height - tx[5]) }
TextItemOf(item, height) ==
    [str |-> item.str, x |-> Round(item.tx), y |-> Round(height - item.ty)]

\* the loop over content.items of one page
RECURSIVE ExtractLoop(_, _, _)
ExtractLoop(raw, height, acc) ==
    IF raw = <<>> THEN acc
    ELSE ExtractLoop(Tail(raw), height,
                     IF KeepItem(Head(raw))
                     THEN Append(acc, TextItemOf(Head(raw), height))
                     ELSE acc)

ExtractItems(page) == ExtractLoop(page.items, page.height, <<>>)

----------------------------------------------------------------------------
(* convertToExcel: the loop over pages *)

MaxOf(S) == CHOOSE m \in S : \A n \in S : n <= m

\* the upper limit is left out
ColWidth_noUpperLimit(g, ci) ==
    MaxOf({MinColWidth} \cup {Len(g[r][ci + 1]) : r \in 1..Len(g)})

\* Math.min(50, Math.max(10, ...grid.map((r) => (r[ci] || "").length)))
ColWidth(g, ci) ==
    LET w == MaxOf({MinColWidth} \cup {Len(g[r][ci + 1]) : r \in 1..Len(g)})
    IN  IF w < MaxColWidth THEN w ELSE MaxColWidth

ColWidths(g, cs) == [c \in 1..Len(cs) |-> ColWidth(g, c - 1)]

\* sheets numbered by their place in the workbook
SheetName_renumbered(ps, p) ==
    IF Len(ps) > 1
    THEN "Page " \o ToString(Cardinality({i \in 1..p + 1 : ps[i] # <<>>}))
    ELSE "Sheet1"

SheetName_alwaysPage(ps, p) == "Page " \o ToString(p + 1)

\* pages.length > 1 ? `Page ${p + 1}` : "Sheet1"
SheetName(ps, p) ==
    IF Len(ps) > 1 THEN "Page " \o ToString(p + 1) ELSE "Sheet1"

\* a page without a line is given a sheet too
RECURSIVE SheetsLoop_noSkip(_, _, _)
SheetsLoop_noSkip(ps, p, book) ==
    IF p >= Len(ps) THEN book
    ELSE LET ls == groupIntoLines(ps[p + 1], TableTolerance)
             cs == detectColumns(ls)
             g  == PageGrid(ls, cs)
         IN  SheetsLoop_noSkip(ps, p + 1,
                 Append(book, [name |-> SheetName(ps, p),
                               grid |-> g,
                               cols |-> ColWidths(g, cs)]))

\* one pass of the loop for pages[p]: the sheet appended, if any
RECURSIVE SheetsLoop(_, _, _)
SheetsLoop(ps, p, book) ==
    IF p >= Len(ps) THEN book
    ELSE LET ls == groupIntoLines(ps[p + 1], TableTolerance)
             cs == detectColumns(ls)
             g  == PageGrid(ls, cs)
         IN  IF Len(ls) = 0
             THEN SheetsLoop(ps, p + 1, book)
             ELSE SheetsLoop(ps, p + 1,
                     Append(book, [name |-> SheetName(ps, p),
                                   grid |-> g,
                                   cols |-> ColWidths(g, cs)]))

Sheets(ps) == SheetsLoop(ps, 0, <<>>)

----------------------------------------------------------------------------
(* convertToWord: the paragraphs.  A Paragraph is the record              *)
(* [heading, text, bold, size, pageBreakBefore]: heading is 1 or 2 for    *)
(* HEADING_1, HEADING_2 and 0 when not given; bold and size are those of  *)
(* the TextRun of a body paragraph, FALSE and 0 when there is none.       *)

\* the least index at which pat occurs in s, 0 when it does not
IndexOf(s, pat) ==
    LET at == {i \in 1..Len(s) - Len(pat) + 1 :
                  SubSeq(s, i, i + Len(pat) - 1) = pat}
    IN  IF at = {} THEN 0 ELSE Min(at)

\* String.prototype.replace with a string pattern: the first occurrence
Replace(s, pat, rep) ==
    LET i == IndexOf(s, pat)
    IN  IF i = 0 THEN s
        ELSE SubSeq(s, 1, i - 1) \o rep \o SubSeq(s, i + Len(pat), Len(s))

DotPdf == <<".", "p", "d", "f">>

PdfType == "application/pdf"

\* file.name.replace(".pdf", "")
TitleText(name) == Replace(name, DotPdf, <<>>)

Digit(n) == <<"0", "1", "2", "3", "4", "5", "6", "7", "8", "9">>[n + 1]

\* the decimal digits of a number in a template string
RECURSIVE Decimal(_)
Decimal(n) ==
    IF n < 10 THEN <<Digit(n)>> ELSE Decimal(n \div 10) \o <<Digit(n % 10)>>

\* `Page ${p + 1}`
PageLabel(p) == <<"P", "a", "g", "e", " ">> \o Decimal(p + 1)

Title(text) ==
    [heading |-> 1, text |-> text, bold |-> FALSE, size |-> 0,
     pageBreakBefore |-> FALSE]

PageHeading(text) ==
    [heading |-> 2, text |-> text, bold |-> FALSE, size |-> 0,
     pageBreakBefore |-> FALSE]

\* new Paragraph({ children: [new TextRun({ text, bold, size })] })
Body(text, isShort) ==
    [heading |-> 0, text |-> text, bold |-> isShort,
     size |-> IF isShort THEN ShortSize ELSE BodySize,
     pageBreakBefore |-> FALSE]

\* new Paragraph({ text: "", pageBreakBefore: true })
PageBreak ==
    [heading |-> 0, text |-> <<>>, bold |-> FALSE, size |-> 0,
     pageBreakBefore |-> TRUE]

RECURSIVE Join_noSeparator(_, _)
Join_noSeparator(strs, sep) ==
    IF strs = <<>> THEN <<>>
    ELSE Head(strs) \o Join_noSeparator(Tail(strs), sep)

\* Array.prototype.join
RECURSIVE Join(_, _)
Join(strs, sep) ==
    IF strs = <<>> THEN <<>>
    ELSE IF Len(strs) = 1 THEN strs[1]
         ELSE strs[1] \o sep \o Join(Tail(strs), sep)

\* line.map((i) => i.str).join(" ").trim()
LineText(line) == Trim(Join([i \in 1..Len(line) |-> line[i].str], Chr(" ")))

\* text.length < 60 && line.length <= 3
IsShort_atMost(text, line) ==
    Len(text) <= ShortTextLength /\ Len(line) <= ShortLineItems

\* text.length < 60 && line.length <= 3
IsShort(text, line) == Len(text) < ShortTextLength /\ Len(line) <= ShortLineItems

\* for (const line of lines) { ...; if (!text) continue; push }
RECURSIVE BodyLoop(_, _)
BodyLoop(ls, acc) ==
    IF ls = <<>> THEN acc
    ELSE LET text == LineText(Head(ls))
         IN  IF text = <<>>
             THEN BodyLoop(Tail(ls), acc)
             ELSE BodyLoop(Tail(ls),
                           Append(acc, Body(text, IsShort(text, Head(ls)))))

\* the body paragraphs of one page: groupIntoLines(pages[p]), then the loop
PageBody(page) == BodyLoop(groupIntoLines(page, FlowTolerance), <<>>)

HasPageHeading_always(ps) == TRUE

\* pages.length > 1
HasPageHeading(ps) == Len(ps) > 1

HasPageBreak_always(ps, p) == TRUE

\* p < pages.length - 1
HasPageBreak(ps, p) == p < Len(ps) - 1

\* for (let p = 0; p < pages.length; p++)
RECURSIVE PagesLoop(_, _, _)
PagesLoop(ps, p, acc) ==
    IF p >= Len(ps) THEN acc
    ELSE PagesLoop(ps, p + 1,
            acc
            \o (IF HasPageHeading(ps) THEN <<PageHeading(PageLabel(p))>> ELSE <<>>)
            \o PageBody(ps[p + 1])
            \o (IF HasPageBreak(ps, p) THEN <<PageBreak>> ELSE <<>>))

\* docParagraphs when the loop over pages has ended
Paragraphs(name, ps) == PagesLoop(ps, 0, <<Title(TitleText(name))>>)

----------------------------------------------------------------------------
(* The functions, each applied once to arguments drawn from bounded sets *)

\* fragments for the line grouper: the y values sit on both sides of the
\* tolerances 5 and 8, the x values allow a line whose (y, x) order is not
\* its x order
GroupItems == [str : {Chr("A"), Chr("B")}, x : {10, 60}, y : {10, 11, 16, 50}]

Tolerances == {0, FlowTolerance, TableTolerance}

Init ==
    /\ pc = "idle"
    /\ items = <<>>
    /\ tolerance = 0
    /\ lines = <<>>
    /\ cols = <<>>
    /\ x = 0
    /\ best = 0
    /\ grid = <<>>
    /\ doc = <<>>
    /\ pages = <<>>
    /\ wb = <<>>
    /\ file = Null
    /\ docParagraphs = <<>>
    /\ mode = "word"
    /\ fileName = <<>>
    /\ status = "idle"
    /\ errorMsg = ""
    /\ downloadUrl = Null
    /\ downloadName = <<>>
    /\ calls = <<>>
    /\ started = 0
    /\ outcomes = {}

GroupIntoLines ==
    /\ pc = "idle"
    /\ \E its \in SeqsUpTo(GroupItems, MaxItems), tol \in Tolerances :
          /\ items' = its
          /\ tolerance' = tol
          /\ lines' = groupIntoLines(its, tol)
    /\ pc' = "groupIntoLines"
    /\ UNCHANGED <<cols, x, best, grid>>
    /\ UNCHANGED docVars
    /\ UNCHANGED wordVars
    /\ UNCHANGED uiVars

\* x positions on both sides of the column gap of 20
ColXs == {10, 15, 30, 31, 50, 80, 83}

ColItems == [str : {Chr("A")}, x : ColXs, y : {10}]

\* the ways to cut a list into consecutive non-empty lines
RECURSIVE Cuts(_)
Cuts(s) ==
    IF s = <<>> THEN {<<>>}
    ELSE UNION {{<<SubSeq(s, 1, k)>> \o rest :
                    rest \in Cuts(SubSeq(s, k + 1, Len(s)))} : k \in 1..Len(s)}

DetectColumns ==
    /\ pc = "idle"
    /\ \E its \in SeqsUpTo(ColItems, MaxXs) :
          \E ls \in Cuts(its) :
              /\ lines' = ls
              /\ cols' = detectColumns(ls)
    /\ pc' = "detectColumns"
    /\ UNCHANGED <<items, tolerance, x, best, grid>>
    /\ UNCHANGED docVars
    /\ UNCHANGED wordVars
    /\ UNCHANGED uiVars

\* detectColumns again, on a line just used and one more fragment
AddFragment ==
    /\ pc = "detectColumns"
    /\ Len(lines) <= 1
    /\ \E it \in ColItems :
          /\ lines' = Append(lines, <<it>>)
          /\ x' = it.x
          /\ cols' = detectColumns(lines')
    /\ pc' = "added"
    /\ UNCHANGED <<items, tolerance, best, grid>>
    /\ UNCHANGED docVars
    /\ UNCHANGED wordVars
    /\ UNCHANGED uiVars

\* the same fragments up to order, repetition and lines: two neighbours
\* swapped, one fragment repeated, one repeated fragment removed (each
\* giving one line), or the fragments cut into lines in another way
Rearranged(ls) ==
    LET f == Flatten(ls)
        n == Len(f)
    IN  {<<[f EXCEPT ![i] = f[i + 1], ![i + 1] = f[i]]>> : i \in 1..(n - 1)}
        \cup {<<Append(f, f[i])>> : i \in {j \in 1..n : n < MaxXs}}
        \cup {<<SubSeq(f, 1, i - 1) \o SubSeq(f, i + 1, n)>> :
                 i \in {j \in 1..n : \E k \in 1..n : k # j /\ f[k].x = f[j].x}}
        \cup Cuts(f)

\* detectColumns once more, on the same x positions arranged differently
DetectColumnsAgain ==
    /\ pc = "detectColumns"
    /\ \E ls \in Rearranged(lines) :
          /\ lines' = ls
          /\ cols' = detectColumns(ls)
    /\ pc' = "again"
    /\ UNCHANGED <<items, tolerance, x, best, grid>>
    /\ UNCHANGED docVars
    /\ UNCHANGED wordVars
    /\ UNCHANGED uiVars

AssignCol ==
    /\ pc = "idle"
    /\ \E xv \in ColXs, cs \in SeqsUpTo(ColXs, MaxCols) \ {<<>>} :
          /\ x' = xv
          /\ cols' = cs
          /\ best' = assignCol(xv, cs)
    /\ pc' = "assignCol"
    /\ UNCHANGED <<items, tolerance, lines, grid>>
    /\ UNCHANGED docVars
    /\ UNCHANGED wordVars
    /\ UNCHANGED uiVars

\* fragments of a table page: any string is a TextItem's str
GridItems ==
    [str : {Chr("A"), Chr("B"), Chr(" ")}, x : {10, 30, 31}, y : {10, 50}]

\* one pass of the loop over pages up to the grid, for pages[p] = its
TablePage ==
    /\ pc = "idle"
    /\ \E its \in SeqsUpTo(GridItems, MaxItems) :
          LET ls == groupIntoLines(its, TableTolerance)
              cs == detectColumns(ls)
          IN  /\ items' = its
              /\ tolerance' = TableTolerance
              /\ lines' = ls
              /\ cols' = cs
              /\ grid' = PageGrid(ls, cs)
    /\ pc' = "tablePage"
    /\ UNCHANGED <<x, best>>
    /\ UNCHANGED docVars
    /\ UNCHANGED wordVars
    /\ UNCHANGED uiVars

Hello == <<"H", "e", "l", "l", "o">>
World == <<"W", "o", "r", "l", "d">>

\* fragments of a flow page: any string is a TextItem's str
FlowItems == [str : {Hello, World, Chr(" ")}, x : {10, 60}, y : {10, 11, 50}]

\* one pass of the loop over pages of convertToWord, from groupIntoLines to
\* the end of the loop over lines, for pages[p] = its
FlowPage ==
    /\ pc = "idle"
    /\ \E its \in SeqsUpTo(FlowItems, MaxItems) :
          /\ items' = its
          /\ tolerance' = FlowTolerance
          /\ lines' = groupIntoLines(its, FlowTolerance)
          /\ docParagraphs' = PageBody(its)
    /\ pc' = "flowPage"
    /\ UNCHANGED <<cols, x, best, grid, file>>
    /\ UNCHANGED docVars
    /\ UNCHANGED uiVars

\* one pass of the loop over the items of a line of a table page: the
\* column of one fragment of the page among the columns of the page
AssignFragment ==
    /\ pc = "idle"
    /\ \E its \in SeqsUpTo(ColItems, MaxItems) \ {<<>>} :
          LET ls == groupIntoLines(its, TableTolerance)
              cs == detectColumns(ls)
          IN  \E i \in 1..Len(its) :
                  /\ items' = its
                  /\ tolerance' = TableTolerance
                  /\ lines' = ls
                  /\ cols' = cs
                  /\ x' = its[i].x
                  /\ best' = assignCol(its[i].x, cs)
    /\ pc' = "assignFragment"
    /\ UNCHANGED grid
    /\ UNCHANGED docVars
    /\ UNCHANGED wordVars
    /\ UNCHANGED uiVars

\* a string of n letters
Letters(n) == [i \in 1..n |-> "B"]

\* fragments of one line whose joined text is around 60 characters long
LongItems ==
    [str : {Chr("A"), Chr(" "), Letters(56), Letters(59), Letters(60)},
     x : {10}, y : {10}]

\* one pass of the loop over pages of convertToWord for a page of one line
FlowLine ==
    /\ pc = "idle"
    /\ \E its \in SeqsUpTo(LongItems, MaxLineItems) :
          /\ items' = its
          /\ tolerance' = FlowTolerance
          /\ lines' = groupIntoLines(its, FlowTolerance)
          /\ docParagraphs' = PageBody(its)
    /\ pc' = "flowLine"
    /\ UNCHANGED <<cols, x, best, grid, file>>
    /\ UNCHANGED docVars
    /\ UNCHANGED uiVars

\* cell texts shorter than, at and beyond the two limits of a width
CellTexts == {Letters(n) : n \in {0, 3, 10, 30, 50, 51}}

\* the rows of a grid of n columns: rows that the loop over lines keeps
GridRows(n) == {row \in [1..n -> CellTexts] : KeepRow(row)}

\* the column widths of one pass of the loop over pages, for a grid
ColumnWidths ==
    /\ pc = "idle"
    /\ \E cs \in {<<10>>, <<10, 31>>} :
          \E g \in SeqsUpTo(GridRows(Len(cs)), MaxRows) :
              /\ cols' = cs
              /\ grid' = g
              /\ wb' = <<[name |-> "Sheet1", grid |-> g,
                          cols |-> ColWidths(g, cs)]>>
    /\ pc' = "colWidths"
    /\ UNCHANGED <<items, tolerance, lines, x, best>>
    /\ UNCHANGED <<doc, pages>>
    /\ UNCHANGED wordVars
    /\ UNCHANGED uiVars

NextFn ==
    \/ GroupIntoLines
    \/ DetectColumns
    \/ AddFragment
    \/ DetectColumnsAgain
    \/ AssignCol
    \/ TablePage
    \/ FlowPage
    \/ FlowLine
    \/ ColumnWidths
    \/ AssignFragment

SpecFn == Init /\ [][NextFn]_vars

----------------------------------------------------------------------------
(* The conversion of a document to a workbook *)

\* raw items of the renderer: a text beside the left margin, and a run of
\* white space
RawItems == {[str |-> Chr("A"), tx |-> 21, ty |-> 1481],
             [str |-> Chr(" "), tx |-> 62, ty |-> 1400]}

RawPages == [height : {1584}, items : SeqsUpTo(RawItems, MaxPageItems)]

Documents == SeqsUpTo(RawPages, MaxPages) \ {<<>>}

\* convertToExcel is called: getDocument resolves, pages = []
OpenDocument ==
    /\ pc = "idle"
    /\ \E d \in Documents : doc' = d
    /\ pages' = <<>>
    /\ pc' = "extracting"
    /\ UNCHANGED wb
    /\ UNCHANGED fnVars
    /\ UNCHANGED wordVars
    /\ UNCHANGED uiVars

\* one pass of the loop of extractTextItems: page p = pages.length + 1
ExtractPage ==
    /\ pc = "extracting"
    /\ Len(pages) < Len(doc)
    /\ pages' = Append(pages, ExtractItems(doc[Len(pages) + 1]))
    /\ UNCHANGED <<pc, doc, wb>>
    /\ UNCHANGED fnVars
    /\ UNCHANGED wordVars
    /\ UNCHANGED uiVars

\* extractTextItems has returned: book_new and the loop over pages, which
\* makes no call that suspends; XLSX.write has not been called yet
BuildWorkbook ==
    /\ pc = "extracting"
    /\ Len(pages) = Len(doc)
    /\ wb' = Sheets(pages)
    /\ pc' = "built"
    /\ UNCHANGED <<doc, pages>>
    /\ UNCHANGED fnVars
    /\ UNCHANGED wordVars
    /\ UNCHANGED uiVars

\* XLSX.write of the xlsx package throws ("Workbook is empty") for a
\* workbook to which no sheet was appended.
WriteThrows(book) == Len(book) = 0

\* XLSX.write(wb, ...): the blob is returned, or the error reaches the
\* caller of convertToExcel
WriteWorkbook ==
    /\ pc = "built"
    /\ pc' = IF WriteThrows(wb) THEN "error" ELSE "written"
    /\ UNCHANGED <<doc, pages, wb>>
    /\ UNCHANGED fnVars
    /\ UNCHANGED wordVars
    /\ UNCHANGED uiVars

NextTable ==
    \/ OpenDocument
    \/ ExtractPage
    \/ BuildWorkbook
    \/ WriteWorkbook

SpecTable == Init /\ [][NextTable]_vars

----------------------------------------------------------------------------
(* The conversion of a document to paragraphs *)

\* file names: the extension in lower case, in upper case, and ".pdf" twice
FileNames == {<<"a">> \o DotPdf,
              <<"a", ".", "P", "D", "F">>,
              <<"a">> \o DotPdf \o <<"b">> \o DotPdf}

\* convertToWord(file) is called: getDocument resolves, pages = []
OpenFile ==
    /\ pc = "idle"
    /\ \E n \in FileNames, d \in Documents :
          /\ file' = Some([name |-> n, type |-> PdfType, doc |-> d])
          /\ doc' = d
    /\ pages' = <<>>
    /\ pc' = "extracting"
    /\ UNCHANGED <<wb, docParagraphs>>
    /\ UNCHANGED fnVars
    /\ UNCHANGED uiVars

\* extractTextItems has returned: the title and the loop over pages, which
\* makes no call that suspends; Packer.toBuffer has not been called yet
BuildParagraphs ==
    /\ pc = "extracting"
    /\ Len(pages) = Len(doc)
    /\ docParagraphs' = Paragraphs(file[1].name, pages)
    /\ pc' = "paragraphs"
    /\ UNCHANGED <<doc, pages, wb, file>>
    /\ UNCHANGED fnVars
    /\ UNCHANGED uiVars

NextWord ==
    \/ OpenFile
    \/ ExtractPage
    \/ BuildParagraphs

SpecWord == Init /\ [][NextWord]_vars

\* ---------------------------------------------------------------------
\* ConvertPage: the component's state, its handlers and the calls of
\* convert in flight (src/unnamed/part_002:539-752)
\* ---------------------------------------------------------------------

\* Every page of these files is the same page with one fragment: the
\* handlers never look at what a page holds.
UiPage ==
    [height |-> 1584, items |-> <<[str |-> Chr("A"), tx |-> 21, ty |-> 1481]>>]

UiDocument(k) == [p \in 1..k |-> UiPage]

\* Two file names, one with an upper-case extension.
UiName(k) ==
    IF k % 2 = 1 THEN <<"a", ".", "p", "d", "f">>
    ELSE <<"b", ".", "P", "D", "F">>

\* The files the user can drop or pick: one PDF for each number of pages,
\* and one file of another type.
UiFiles ==
    {[name |-> UiName(k), type |-> PdfType, doc |-> UiDocument(k)] :
        k \in 1..MaxUiPages}
        \cup {[name |-> <<"c", ".", "t", "x", "t">>, type |-> "text/plain",
               doc |-> <<>>]}

\* The value of the i flag of /\.pdf$/i on one character.
Lower(c) ==
    CASE c = "P" -> "p"
      [] c = "D" -> "d"
      [] c = "F" -> "f"
      [] OTHER -> c

\* fileName.replace(/\.pdf$/i, "")
Base(name) ==
    IF /\ Len(name) >= Len(DotPdf)
       /\ \A i \in 1..Len(DotPdf) :
              Lower(name[Len(name) - Len(DotPdf) + i]) = DotPdf[i]
    THEN SubSeq(name, 1, Len(name) - Len(DotPdf))
    ELSE name

DotDocx == <<".", "d", "o", "c", "x">>
TablesXlsx == <<"-", "t", "a", "b", "l", "e", "s", ".", "x", "l", "s", "x">>

\* The name given to the download by convert.
DownloadName(m, name) ==
    IF m = "word" THEN Base(name) \o DotDocx ELSE Base(name) \o TablesXlsx

\* The message of the catch block, as characters are not needed: one text.
FailedMessage == "Conversion failed. Make sure the PDF contains selectable text (not scanned images)."

\* What can be thrown inside the try block: a rejection of the PDF reader
\* (import, arrayBuffer, getDocument, getPage, getTextContent) or of the
\* serializer (Packer.toBuffer, XLSX.write).
Errors == {"reader", "serializer"}

ErrorMessage_ofError(err) == err

\* The message shown for a caught error.
ErrorMessage(err) == FailedMessage

StatusOnError_kept(s) == s

\* The status set by the catch block, given the status before.
StatusOnError(s) == "error"

LoopDone_early(p, numPages) == p >= numPages - 1

\* The exit test of the loop of extractTextItems, after p pages.
LoopDone(p, numPages) == p >= numPages

PagesBuilt_withExtraction(call, all) == call.extracted

\* The number of pages whose lines have been built by the loop of the
\* builder once the call has extracted a page; all says whether this was
\* the last page.
PagesBuilt(call, all) == IF all THEN call.extracted ELSE 0

\* The blob a call hands to URL.createObjectURL.
Blob(call) ==
    [file |-> call.file, mode |-> call.mode, pages |-> call.built]

Remove(s, i) == SubSeq(s, 1, i - 1) \o SubSeq(s, i + 1, Len(s))

\* The link rendered for the download.
DownloadShown == file # Null /\ status = "done" /\ downloadUrl # Null

\* A call of convert stays at an await, as the record call.
Await(i, call) ==
    /\ calls' = [calls EXCEPT ![i] = call]
    /\ UNCHANGED <<file, mode, fileName, status, errorMsg, downloadUrl,
                   downloadName, started, outcomes>>

\* The end of the try block of convert, for the i-th call, which got as
\* far as the record call.
Succeed(i, call) ==
    /\ downloadUrl' = Some(Blob(call))
    /\ downloadName' = DownloadName(call.mode, call.fileName)
    /\ status' = "done"
    /\ calls' = Remove(calls, i)
    /\ outcomes' = outcomes \cup
           {[id |-> call.id, result |-> "done", err |-> "none",
             shown |-> "", pages |-> call.built]}
    /\ UNCHANGED <<file, fileName, mode, errorMsg, started>>

\* The catch block of convert, for the i-th call and the error caught.
Catch(i, call, err) ==
    /\ errorMsg' = ErrorMessage(err)
    /\ status' = StatusOnError(status)
    /\ calls' = Remove(calls, i)
    /\ outcomes' = outcomes \cup
           {[id |-> call.id, result |-> "error", err |-> err,
             shown |-> ErrorMessage(err), pages |-> 0]}
    /\ UNCHANGED <<file, fileName, mode, downloadUrl, downloadName, started>>

LoadFile ==
    /\ file = Null
    /\ \E f \in UiFiles :
          IF f.type # PdfType
          THEN UNCHANGED uiVars /\ UNCHANGED file
          ELSE /\ file' = Some(f)
               /\ fileName' = f.name
               /\ status' = "idle"
               /\ downloadUrl' = Null
               /\ UNCHANGED <<mode, errorMsg, downloadName, calls, started,
                              outcomes>>
    /\ UNCHANGED <<pc, docParagraphs>>
    /\ UNCHANGED fnVars
    /\ UNCHANGED docVars

Reset ==
    /\ file # Null
    /\ file' = Null
    /\ fileName' = <<>>
    /\ status' = "idle"
    /\ downloadUrl' = Null
    /\ UNCHANGED <<mode, errorMsg, downloadName, calls, started, outcomes>>
    /\ UNCHANGED <<pc, docParagraphs>>
    /\ UNCHANGED fnVars
    /\ UNCHANGED docVars

SelectMode ==
    /\ \E m \in {"word", "excel"} : mode' = m
    /\ status' = "idle"
    /\ downloadUrl' = Null
    /\ UNCHANGED <<file, fileName, errorMsg, downloadName, calls, started,
                   outcomes>>
    /\ UNCHANGED <<pc, docParagraphs>>
    /\ UNCHANGED fnVars
    /\ UNCHANGED docVars

\* The click on the convert button, up to the first await of the call.
Convert ==
    /\ file # Null
    /\ status # "loading"
    /\ started < MaxConverts
    /\ status' = "loading"
    /\ errorMsg' = ""
    /\ downloadUrl' = Null
    /\ started' = started + 1
    /\ calls' = Append(calls,
           [id |-> started + 1, file |-> file[1], fileName |-> fileName,
            mode |-> mode, stage |-> "open", extracted |-> 0, built |-> 0])
    /\ UNCHANGED <<file, fileName, mode, downloadName, outcomes>>
    /\ UNCHANGED <<pc, docParagraphs>>
    /\ UNCHANGED fnVars
    /\ UNCHANGED docVars

\* getDocument resolves for a call.
GetDocument ==
    /\ \E i \in 1..Len(calls) :
          /\ calls[i].stage = "open"
          /\ Await(i, [calls[i] EXCEPT !.stage = "extract"])
    /\ UNCHANGED <<pc, docParagraphs>>
    /\ UNCHANGED fnVars
    /\ UNCHANGED docVars

\* The call as it is once getTextContent has resolved for its next page
\* and the call has run on to its next await or to its end: the next page,
\* or after the last page the loop of the builder and the serializer.
AfterPage(call) ==
    LET next == [call EXCEPT !.extracted = call.extracted + 1]
        all == LoopDone(next.extracted, Len(call.file.doc))
        after == [next EXCEPT !.built = PagesBuilt(next, all)]
    IN IF all THEN [after EXCEPT !.stage = "pack"] ELSE after

\* getTextContent resolves for the next page of a call. XLSX.write is not
\* awaited: after the last page the call in excel mode ends in this step.
GetTextContent ==
    /\ \E i \in 1..Len(calls) :
          /\ calls[i].stage = "extract"
          /\ IF AfterPage(calls[i]).stage = "pack" /\ calls[i].mode = "excel"
             THEN Succeed(i, AfterPage(calls[i]))
             ELSE Await(i, AfterPage(calls[i]))
    /\ UNCHANGED <<pc, docParagraphs>>
    /\ UNCHANGED fnVars
    /\ UNCHANGED docVars

\* Packer.toBuffer resolves for a call in word mode.
ToBuffer ==
    /\ \E i \in 1..Len(calls) :
          /\ calls[i].stage = "pack"
          /\ Succeed(i, calls[i])
    /\ UNCHANGED <<pc, docParagraphs>>
    /\ UNCHANGED fnVars
    /\ UNCHANGED docVars

\* An await of a call rejects, or XLSX.write throws after the last page.
Reject ==
    /\ \E i \in 1..Len(calls), err \in Errors :
          \/ /\ calls[i].stage \in {"open", "extract"}
             /\ err = "reader"
             /\ Catch(i, calls[i], err)
          \/ /\ calls[i].stage = "pack"
             /\ err = "serializer"
             /\ Catch(i, calls[i], err)
          \/ /\ calls[i].stage = "extract"
             /\ calls[i].mode = "excel"
             /\ AfterPage(calls[i]).stage = "pack"
             /\ err = "serializer"
             /\ Catch(i, AfterPage(calls[i]), err)
    /\ UNCHANGED <<pc, docParagraphs>>
    /\ UNCHANGED fnVars
    /\ UNCHANGED docVars

Next ==
    \/ LoadFile
    \/ Reset
    \/ SelectMode
    \/ Convert
    \/ GetDocument
    \/ GetTextContent
    \/ ToBuffer
    \/ Reject

Spec == Init /\ [][Next]_vars


----------------------------------------------------------------------------
(* Claims about groupIntoLines *)

Grouped == pc = "groupIntoLines"

\* C1: the fragments of all lines returned by groupIntoLines, taken
\* together, are the input fragments with the same multiplicities, and no
\* line is empty.
C1_GroupingPreservesFragments ==
    Grouped =>
        /\ \A e \in Range(items) \cup Range(Flatten(lines)) :
              Count(e, items) = Count(e, Flatten(lines))
        /\ \A i \in 1..Len(lines) : lines[i] # <<>>

\* a list with a repeated fragment, split over two lines
C1_Witness ==
    /\ Grouped
    /\ Len(items) = MaxItems
    /\ \E e \in Range(items) : Count(e, items) = 2
    /\ Len(lines) = 2

YXNonDecreasing(s) == \A i \in 1..Len(s) - 1 : CmpYX(s[i], s[i + 1]) <= 0

XNonDecreasing(s) == \A i \in 1..Len(s) - 1 : s[i].x <= s[i + 1].x

\* C2, as claimed: the concatenation of the returned lines is non-decreasing
\* in (y, then x).
C2_FlattenedYXOrder == Grouped => YXNonDecreasing(Flatten(lines))

\* C2, amended: the concatenation of the returned lines is non-decreasing in
\* (line, then x): every fragment of a later line has a greater y than every
\* fragment of an earlier line and x does not decrease within a line; it is
\* non-decreasing in (y, then x) when the fragments of each line share one y.
C2_FlattenedLineXOrder ==
    Grouped =>
        /\ \A i, j \in 1..Len(lines) :
              i < j => \A a \in Range(lines[i]), b \in Range(lines[j]) : a.y < b.y
        /\ \A i \in 1..Len(lines) : XNonDecreasing(lines[i])
        /\ (\A i \in 1..Len(lines) : \A a, b \in Range(lines[i]) : a.y = b.y)
              => YXNonDecreasing(Flatten(lines))

\* a line in x order that is not in y order, followed by another line
C2_Witness ==
    /\ Grouped
    /\ Len(lines) = 2
    /\ Len(lines[1]) = 2
    /\ lines[1][1].y > lines[1][2].y

\* the reference fragment of a line: its first in (y, x) sorted order
Reference(line) == SortYX(line)[1]

\* C3: in every returned line every fragment's y is within tolerance of the
\* y of the line's reference fragment, so no two fragments of a line differ
\* in y by more than tolerance.
C3_WithinToleranceOfReference ==
    Grouped =>
        \A i \in 1..Len(lines) :
            /\ \A f \in Range(lines[i]) :
                  /\ Reference(lines[i]).y <= f.y
                  /\ Abs(f.y - Reference(lines[i]).y) <= tolerance
            /\ \A f, g \in Range(lines[i]) : Abs(f.y - g.y) <= tolerance

\* a fragment within tolerance of the previous fragment, but not of the
\* reference, starts a new line
C3_Witness ==
    /\ Grouped
    /\ Len(lines) = 2
    /\ \E f \in Range(lines[1]) :
          /\ Abs(lines[2][1].y - f.y) <= tolerance
          /\ Abs(lines[2][1].y - Reference(lines[1]).y) > tolerance

\* C4: in every returned line the fragments are in ascending x order, for
\* any input order.
C4_LinesAscendingX ==
    Grouped => \A i \in 1..Len(lines) : XNonDecreasing(lines[i])

\* a line whose (y, x) order is not its x order, from an input not sorted
C4_Witness ==
    /\ Grouped
    /\ ~YXNonDecreasing(items)
    /\ \E i \in 1..Len(lines) :
          /\ Len(lines[i]) >= 2
          /\ ~XNonDecreasing(SortYX(lines[i]))

----------------------------------------------------------------------------
(* Claims about detectColumns and assignCol *)

Detected == pc = "detectColumns"

\* C5: the columns returned by detectColumns are strictly ascending and any
\* two adjacent columns differ by more than 20.
C5_ColumnsSeparated ==
    Detected =>
        \A i \in 1..Len(cols) - 1 :
            /\ cols[i] < cols[i + 1]
            /\ cols[i + 1] - cols[i] > 20

\* an x exactly 20 after a column is absorbed, and a later x makes a column
C5_Witness ==
    /\ Detected
    /\ Len(cols) = 2
    /\ \E xv \in Range(XPositions(lines)) : xv - cols[1] = 20

\* the columns below xv, and the column most recently accepted before xv
ColsBelow(xv) == {c \in Range(cols) : c < xv}
LastAccepted(xv) == CHOOSE c \in ColsBelow(xv) : \A b \in ColsBelow(xv) : b <= c

\* C6: detectColumns returns the greedy scan of the distinct x values in
\* ascending order: the smallest x is the first column, an x is a column
\* exactly when it is the smallest or exceeds the most recently accepted
\* column by more than 20, and x = 10, 15, 80, 83 gives columns 10, 80.
C6_ColumnsGreedyScan ==
    Detected =>
        LET X == Range(XPositions(lines))
        IN  /\ Range(cols) \subseteq X
            /\ \A i \in 1..Len(cols) - 1 : cols[i] < cols[i + 1]
            /\ (X # {} => (cols # <<>> /\ cols[1] = Min(X)))
            /\ (X = {} => cols = <<>>)
            /\ \A xv \in X :
                  xv \in Range(cols) <=>
                      \/ xv = Min(X)
                      \/ /\ ColsBelow(xv) # {}
                         /\ xv - LastAccepted(xv) > 20
            /\ (X = {10, 15, 80, 83} => cols = <<10, 80>>)

\* an x absorbed into the first column, and a second column that starts
\* within 20 of that absorbed x
C6_Witness ==
    /\ Detected
    /\ Len(cols) = 2
    /\ \E xv \in Range(XPositions(lines)) :
          /\ xv \notin Range(cols)
          /\ cols[1] < xv
          /\ xv < cols[2]
          /\ cols[2] - xv <= 20

Assigned == pc = "assignCol"

\* C7: assignCol returns the index of a column at minimum absolute distance
\* from x, and of the columns at that distance the one of lowest index.
C7_NearestColumnLeftmost ==
    Assigned =>
        /\ best \in 0..Len(cols) - 1
        /\ \A i \in 0..Len(cols) - 1 :
              Abs(x - cols[best + 1]) <= Abs(x - cols[i + 1])
        /\ \A i \in 0..best - 1 :
              Abs(x - cols[i + 1]) > Abs(x - cols[best + 1])

\* x is equidistant from two different columns, both nearest
C7_Witness ==
    /\ Assigned
    /\ \E i \in 0..Len(cols) - 1 :
          /\ i > best
          /\ cols[i + 1] # cols[best + 1]
          /\ Abs(x - cols[i + 1]) = Abs(x - cols[best + 1])

----------------------------------------------------------------------------
(* Claims about the grid of a page *)

GridBuilt == pc = "tablePage"

IsBlank(s) == \A i \in 1..Len(s) : s[i] = " "

\* C8: no grid built by the table builder contains a row in which every
\* cell is the empty string after trimming.
C8_NoBlankRow ==
    GridBuilt =>
        \A r \in 1..Len(grid) : \E c \in 1..Len(grid[r]) : ~IsBlank(grid[r][c])

\* a line of whitespace fragments was left out, another line was kept
C8_Witness ==
    /\ GridBuilt
    /\ Len(lines) = 2
    /\ Len(grid) = 1
    /\ \E f \in Range(Flatten(lines)) : f.str = Chr(" ")

----------------------------------------------------------------------------
(* Claims about the sheets of a workbook *)

Built == pc = "built"

\* the 1-based indices of the pages that yield at least one line
ContentPages == {i \in 1..Len(pages) :
                    groupIntoLines(pages[i], TableTolerance) # <<>>}

NameOfPage(n) == <<"Page 1", "Page 2", "Page 3", "Page 4", "Page 5">>[n]

SheetNames == [k \in 1..Len(wb) |-> wb[k].name]

\* C9: in table mode on a multi-page document the sheets are the pages that
\* yield at least one line, in page order, each named "Page N" with N the
\* 1-based page index; 3 pages with page 2 empty give "Page 1", "Page 3".
C9_SheetsAreContentPages ==
    (Built /\ Len(pages) > 1) =>
        /\ SheetNames = [k \in 1..Cardinality(ContentPages) |->
                            NameOfPage(Ascending(ContentPages)[k])]
        /\ (Len(pages) = 3 /\ ContentPages = {1, 3})
              => SheetNames = <<"Page 1", "Page 3">>

\* three pages, the second without a line
C9_Witness ==
    /\ Built
    /\ Len(pages) = 3
    /\ ContentPages = {1, 3}
    /\ Len(wb) = 2

\* C10, as claimed: whenever exactly one page of the document has content,
\* the single sheet is named "Sheet1", whatever the number of pages.
C10_SingleSheetNamedSheet1 ==
    (Built /\ Cardinality(ContentPages) = 1) =>
        SheetNames = <<"Sheet1">>

\* C10, amended: whenever exactly one page of the document has content,
\* exactly one sheet is emitted; it is named "Sheet1" when the document has
\* one page, and "Page N", N the 1-based index of that page, when the
\* document has more than one page.
C10_SingleSheetName ==
    (Built /\ Cardinality(ContentPages) = 1) =>
        /\ Len(wb) = 1
        /\ (Len(pages) = 1 => wb[1].name = "Sheet1")
        /\ (Len(pages) > 1 => wb[1].name = NameOfPage(Min(ContentPages)))

\* a document of one page, with content
C10_Witness ==
    /\ Built
    /\ Len(pages) = 1
    /\ Cardinality(ContentPages) = 1
    /\ Len(wb) = 1

\* C11, as claimed: for every single-page document, table mode emits exactly
\* one sheet, named "Sheet1".
C11_SinglePageOneSheet ==
    (Built /\ Len(pages) = 1) => SheetNames = <<"Sheet1">>

\* C11, amended: a single-page document whose page yields at least one line
\* gives exactly one sheet, named "Sheet1"; a single-page document whose
\* page yields no line gives no sheet.
C11_SinglePageSheet ==
    (Built /\ Len(pages) = 1) =>
        /\ (ContentPages = {1} => SheetNames = <<"Sheet1">>)
        /\ (ContentPages = {} => wb = <<>>)

\* a single page with two fragments, one sheet
C11_Witness ==
    /\ Built
    /\ Len(pages) = 1
    /\ Len(pages[1]) = 2
    /\ Len(wb) = 1

----------------------------------------------------------------------------
(* Claims about the paragraphs of convertToWord *)

Paragraphed == pc = "paragraphs"

\* a name without its last "." and what follows it
LastDot(name) == MaxOf({0} \cup {i \in 1..Len(name) : name[i] = "."})
StripExtension(name) ==
    IF LastDot(name) = 0 THEN name ELSE SubSeq(name, 1, LastDot(name) - 1)

\* C12: the first block of every flow output is a heading-level-1 title
\* whose text is the file name with only its trailing extension removed.
C12_TitleIsNameWithoutExtension ==
    Paragraphed =>
        /\ docParagraphs[1].heading = 1
        /\ docParagraphs[1].text = StripExtension(file[1].name)

\* the places of the "Page N" headings, of the page breaks and of the body
\* paragraphs in docParagraphs
HeadingPlaces == {i \in 1..Len(docParagraphs) : docParagraphs[i].heading = 2}
BreakPlaces == {i \in 1..Len(docParagraphs) : docParagraphs[i].pageBreakBefore}
BodyPlaces == {i \in 1..Len(docParagraphs) :
                  /\ docParagraphs[i].heading = 0
                  /\ ~docParagraphs[i].pageBreakBefore}

\* the place of the heading of page k, and the place where the blocks of
\* page k end: the next heading, or the end of the document
HeadingOf(k) == Ascending(HeadingPlaces)[k]
EndOf(k) ==
    IF k < Cardinality(HeadingPlaces) THEN HeadingOf(k + 1)
    ELSE Len(docParagraphs) + 1

PageText(n) == <<"P", "a", "g", "e", " ", <<"1", "2", "3", "4", "5">>[n]>>

\* C13: a document of more than one page gets one heading-level-2 block
\* "Page N" per page, in page order and before that page's body blocks, also
\* for a page with zero lines (no body block under its heading); a
\* single-page document gets no "Page N" heading.
C13_PageHeadings ==
    Paragraphed =>
        /\ (Len(pages) = 1 => HeadingPlaces = {})
        /\ (Len(pages) > 1 =>
              /\ Cardinality(HeadingPlaces) = Len(pages)
              /\ \A k \in 1..Len(pages) :
                    /\ docParagraphs[HeadingOf(k)].text = PageText(k)
                    /\ Cardinality({i \in BodyPlaces :
                                       HeadingOf(k) < i /\ i < EndOf(k)})
                          = Len(groupIntoLines(pages[k], FlowTolerance))
                    /\ (pages[k] = <<>> =>
                          {i \in BodyPlaces : HeadingOf(k) < i /\ i < EndOf(k)} = {})
              /\ \A i \in BodyPlaces : HeadingOf(1) < i)

\* three pages, the second without a line, the others with one
C13_Witness ==
    /\ Paragraphed
    /\ Len(pages) = 3
    /\ pages[1] # <<>>
    /\ pages[2] = <<>>
    /\ pages[3] # <<>>
    /\ Cardinality(HeadingPlaces) = 3

\* C14: a page-break block follows the blocks of every page except the
\* last: a document of n pages has n - 1 page-break blocks, each between
\* the blocks of two consecutive pages, none after the last page.
C14_PageBreaksBetweenPages ==
    Paragraphed =>
        /\ Cardinality(BreakPlaces) = Len(pages) - 1
        /\ Len(docParagraphs) \notin BreakPlaces
        /\ \A k \in 1..Len(pages) - 1 : HeadingOf(k + 1) - 1 \in BreakPlaces
        /\ \A i \in BreakPlaces : docParagraphs[i] = PageBreak

\* two page breaks, and a last page that has a body block
C14_Witness ==
    /\ Paragraphed
    /\ Len(pages) = 3
    /\ pages[3] # <<>>
    /\ Cardinality(BreakPlaces) = 2

FlowBuilt == pc = "flowPage"

\* the texts of a line, each followed by a space but the last
RECURSIVE Spaced(_)
Spaced(line) ==
    IF line = <<>> THEN <<>>
    ELSE Spaced(SubSeq(line, 1, Len(line) - 1))
         \o (IF Len(line) > 1 THEN <<" ">> ELSE <<>>) \o line[Len(line)].str

\* s without the spaces at its two ends
Stripped(s) ==
    LET inked == {i \in 1..Len(s) : s[i] # " "}
    IN  IF inked = {} THEN <<>> ELSE SubSeq(s, Min(inked), MaxOf(inked))

NotEmpty(t) == t # <<>>

\* C15: each line grouped with tolerance 5 becomes one body block whose
\* text is its fragments' texts in ascending x order joined with single
\* spaces and trimmed; a line whose joined text is empty gives no block;
\* the blocks are in line order; "Hello" at (10,10) and "World" at (60,11)
\* give the one block "Hello World".
C15_BodyBlocksAreLines ==
    FlowBuilt =>
        /\ lines = groupIntoLines(items, 5)
        /\ \A i \in 1..Len(lines) : XNonDecreasing(lines[i])
        /\ [i \in 1..Len(docParagraphs) |-> docParagraphs[i].text]
              = SelectSeq([i \in 1..Len(lines) |-> Stripped(Spaced(lines[i]))],
                          NotEmpty)
        /\ \A i \in 1..Len(docParagraphs) :
              /\ docParagraphs[i].heading = 0
              /\ ~docParagraphs[i].pageBreakBefore
        /\ (items = <<[str |-> Hello, x |-> 10, y |-> 10],
                      [str |-> World, x |-> 60, y |-> 11]>>
              => /\ Len(docParagraphs) = 1
                 /\ docParagraphs[1].text = Hello \o <<" ">> \o World)

\* a line of two texts given out of x order, and a line of white space
\* that gives no block
C15_Witness ==
    /\ FlowBuilt
    /\ Len(lines) = 2
    /\ Len(docParagraphs) = 1
    /\ docParagraphs[1].text = Hello \o <<" ">> \o World
    /\ items[1].str = World

\* ---------------------------------------------------------------------
\* C20: when one fragment is added whose x lies strictly between two
\* adjacent detected columns and more than 20 units from both, detectColumns
\* returns the previous columns with exactly one new column at that x
\* inserted between the two: the count grows by one and both neighbours
\* remain columns.
\* ---------------------------------------------------------------------
InsertAfter(cs, k, xv) ==
    SubSeq(cs, 1, k) \o <<xv>> \o SubSeq(cs, k + 1, Len(cs))

WellInside(cs, k, xv) ==
    /\ cs[k + 1] - cs[k] > ColumnGap
    /\ xv - cs[k] > ColumnGap
    /\ cs[k + 1] - xv > ColumnGap

C20_AddedColumn ==
    [][(pc = "detectColumns" /\ pc' = "added") =>
          \A k \in 1..(Len(cols) - 1) :
              WellInside(cols, k, x') => cols' = InsertAfter(cols, k, x')]_vars

C20_Witness ==
    /\ pc = "added"
    /\ Len(cols) = 3
    /\ WellInside(<<cols[1], cols[3]>>, 1, cols[2])
    /\ x = cols[2]
    /\ Cardinality({i \in 1..Len(XPositions(lines)) :
                        XPositions(lines)[i] = x}) = 1
    /\ detectColumns(SubSeq(lines, 1, Len(lines) - 1)) = <<cols[1], cols[3]>>

\* ---------------------------------------------------------------------
\* C16 (as stated): when a call of convert has taken one more page, that
\* page and all pages before it have been built, and what the page shows
\* of the conversion has changed (a progress report).
\* ---------------------------------------------------------------------
\* What the component renders of a conversion.
Reported == <<status, errorMsg, downloadUrl, downloadName>>

\* The i-th call takes one more page in this step and is still running.
TakesPage(i) ==
    /\ Len(calls') = Len(calls)
    /\ calls'[i].id = calls[i].id
    /\ calls'[i].extracted = calls[i].extracted + 1

C17_FailureIsTerminal ==
    [][\A o \in outcomes' \ outcomes :
          o.result = "error" =>
              /\ status' = "error"
              /\ ~DownloadShown'
              /\ downloadUrl' = downloadUrl
              /\ downloadName' = downloadName
              /\ o.pages = 0
              /\ \A j \in 1..Len(calls') : calls'[j].id # o.id
              /\ Cardinality({q \in outcomes' : q.id = o.id}) = 1]_vars

C17_Witness ==
    /\ status = "error"
    /\ file # Null
    /\ \E o \in outcomes : o.result = "error" /\ o.err = "serializer"
    /\ \E o \in outcomes : o.result = "error" /\ o.err = "reader"

\* ---------------------------------------------------------------------
\* C18 (as stated): every call of convert that has ended has exactly one
\* outcome, and two failures with different errors were shown with
\* different messages.
\* ---------------------------------------------------------------------
Running == {calls[i].id : i \in 1..Len(calls)}

OneOutcome ==
    /\ \A o, q \in outcomes : o.id = q.id => o = q
    /\ {o.id : o \in outcomes} \cap Running = {}
    /\ {o.id : o \in outcomes} \cup Running = 1..started
    /\ Cardinality(Running) = Len(calls)

C18_ReasonShown ==
    /\ OneOutcome
    /\ \A o, q \in outcomes :
          (o.result = "error" /\ q.result = "error" /\ o.err # q.err)
              => o.shown # q.shown

\* ---------------------------------------------------------------------
\* C18 (amended): every call of convert that has ended has exactly one
\* outcome, done or error; every failure is shown with the same fixed
\* message whatever the error was, and the error itself is only logged.
\* ---------------------------------------------------------------------
C18_OneOutcomeFixedMessage ==
    /\ OneOutcome
    /\ \A o \in outcomes : o.result \in {"done", "error"}
    /\ \A o \in outcomes : o.result = "error" => o.shown = FailedMessage
    /\ status = "error" => errorMsg = FailedMessage

C18_Witness ==
    /\ status = "error"
    /\ \E o, q \in outcomes :
          /\ o.result = "error" /\ q.result = "error"
          /\ o.err # q.err
          /\ o.shown = q.shown

\* ---------------------------------------------------------------------
\* C19: whatever the user does while a call of convert is between pages
\* (remove the file, pick another mode), the blob that reaches the page
\* covers every page of its document, never a prefix of them.
\* ---------------------------------------------------------------------
C19_NoPartialOutput ==
    /\ downloadUrl # Null =>
           downloadUrl[1].pages = Len(downloadUrl[1].file.doc)
    /\ \A o \in outcomes : o.result = "done" => o.pages >= 1

C19_Witness ==
    /\ file = Null
    /\ downloadUrl = Null
    /\ outcomes = {}
    /\ \E i \in 1..Len(calls) :
          /\ calls[i].stage = "extract"
          /\ calls[i].extracted >= 1
          /\ calls[i].extracted < Len(calls[i].file.doc)

\* ---------------------------------------------------------------------
\* C21: detectColumns depends only on the set of x positions: run again on
\* the same positions in another order, with other repetitions and cut
\* into lines differently, it returns the same columns.
\* ---------------------------------------------------------------------
\* the x positions of all fragments of all lines
XSet(ls) == UNION {{ls[i][j].x : j \in 1..Len(ls[i])} : i \in 1..Len(ls)}

C21_SameSetSameColumns ==
    [][(pc' = "again" /\ XSet(lines') = XSet(lines)) => cols' = cols]_vars

C21_Witness ==
    /\ pc = "again"
    /\ Len(lines) = 2
    /\ Len(cols) = 2
    /\ Len(Flatten(lines)) > Cardinality(XSet(lines))
    /\ \E i \in 1..(Len(Flatten(lines)) - 1) :
          Flatten(lines)[i].x > Flatten(lines)[i + 1].x

\* ---------------------------------------------------------------------
\* C22: every extracted page holds exactly the raw items whose text is not
\* blank, in the renderer's order, one list per page in page order; a page
\* without such an item gives an empty list and no row of any sheet, and
\* the conversion does not end in an error.
\* ---------------------------------------------------------------------
HasText(item) == \E i \in 1..Len(item.str) : item.str[i] \notin WhiteSpace

Strs(s) == [i \in 1..Len(s) |-> s[i].str]

ExtractedExactly ==
    /\ Len(pages) <= Len(doc)
    /\ \A k \in 1..Len(pages) :
          Strs(pages[k]) = Strs(SelectSeq(doc[k].items, HasText))

NoRowsOfEmptyPages ==
    pc \in {"built", "written", "error"} =>
        \A k \in 1..Len(pages) :
            pages[k] = <<>> =>
                \A s \in 1..Len(wb) : wb[s].name # SheetName(pages, k - 1)

C22_EmptyPageIsNoError ==
    /\ ExtractedExactly
    /\ NoRowsOfEmptyPages
    /\ pc # "error"

\* the part of C22 that holds: all of it but the successful end
C22_ExtractionAndSkip == ExtractedExactly /\ NoRowsOfEmptyPages

\* ---------------------------------------------------------------------
\* C23: a body block is marked as heading candidate (bold, size 24 instead
\* of 20) exactly when its joined, trimmed text is shorter than 60
\* characters and its line has 3 or fewer fragments; a text of 60
\* characters or a line of 4 fragments is never marked.
\* ---------------------------------------------------------------------
HasInk(line) == Stripped(Spaced(line)) # <<>>

KeptLines == SelectSeq(lines, HasInk)

C23_HeadingCandidates ==
    pc = "flowLine" =>
        /\ Len(docParagraphs) = Len(KeptLines)
        /\ \A i \in 1..Len(docParagraphs) :
              LET marked == /\ Len(Stripped(Spaced(KeptLines[i]))) < 60
                            /\ Len(KeptLines[i]) <= 3
              IN  /\ docParagraphs[i].bold = marked
                  /\ docParagraphs[i].size = IF marked THEN 24 ELSE 20
                  /\ Len(docParagraphs[i].text) >= 60 => ~docParagraphs[i].bold
                  /\ Len(KeptLines[i]) >= 4 => ~docParagraphs[i].bold

\* three fragments whose joined text has exactly 60 characters: not marked
C23_Witness ==
    /\ pc = "flowLine"
    /\ Len(lines) = 1
    /\ Len(lines[1]) = 3
    /\ Len(docParagraphs) = 1
    /\ Len(docParagraphs[1].text) = 60
    /\ ~docParagraphs[1].bold
    /\ docParagraphs[1].size = 20

\* ---------------------------------------------------------------------
\* C24: for a page of fragments (texts not blank), every grid row has as
\* many cells as there are detected columns, and each cell is the texts of
\* the fragments of its line that are assigned to its column, in ascending
\* x order and joined with single spaces; a cell with no such fragment is
\* the empty string.
\* ---------------------------------------------------------------------
Fragments(its) == \A i \in 1..Len(its) : HasText(its[i])

\* the 1-based column nearest to xv, the leftmost of the nearest
NearestColumn(xv) ==
    Min({c \in 1..Len(cols) :
            \A d \in 1..Len(cols) : Abs(xv - cols[c]) <= Abs(xv - cols[d])})

\* the fragments of a line that belong to column c, in the line's order
CellFragments(line, c) ==
    LET InColumn(it) == NearestColumn(it.x) = c
    IN  SelectSeq(line, InColumn)

C24_CellsAreColumnTexts ==
    (GridBuilt /\ Fragments(items)) =>
        /\ Len(grid) = Len(lines)
        /\ \A r \in 1..Len(grid) :
              /\ Len(grid[r]) = Len(cols)
              /\ \A c \in 1..Len(cols) :
                    /\ XNonDecreasing(CellFragments(lines[r], c))
                    /\ grid[r][c] = Spaced(CellFragments(lines[r], c))

\* "B" at x = 31 given before "A" at x = 30, both in the column of 31, and
\* a second line that has a fragment in the column of 10 only
C24_Witness ==
    /\ GridBuilt
    /\ Fragments(items)
    /\ Len(items) = 3
    /\ items[1] = [str |-> Chr("B"), x |-> 31, y |-> 10]
    /\ items[2] = [str |-> Chr("A"), x |-> 30, y |-> 10]
    /\ cols = <<10, 31>>
    /\ grid = <<<<<<>>, <<"A", " ", "B">>>>, <<<<"B">>, <<>>>>>>

\* ---------------------------------------------------------------------
\* C25: the width hint of every column is the greatest length of a cell of
\* that column over all rows of the grid, clamped to the range 10..50.
\* ---------------------------------------------------------------------
\* the greatest length of a cell of column c, 0 for a grid without rows
LongestCell(c) ==
    IF grid = <<>> THEN 0 ELSE MaxOf({Len(grid[r][c]) : r \in 1..Len(grid)})

C25_WidthClamped ==
    pc = "colWidths" =>
        /\ Len(wb[1].cols) = Len(cols)
        /\ \A c \in 1..Len(cols) :
              /\ wb[1].cols[c] >= 10
              /\ wb[1].cols[c] <= 50
              /\ LongestCell(c) \in 10..50 => wb[1].cols[c] = LongestCell(c)
              /\ LongestCell(c) < 10 => wb[1].cols[c] = 10
              /\ LongestCell(c) > 50 => wb[1].cols[c] = 50

\* one column clamped from below, one from above
C25_Witness ==
    /\ pc = "colWidths"
    /\ Len(cols) = 2
    /\ Len(grid) = 2
    /\ LongestCell(1) = 3
    /\ LongestCell(2) = 51
    /\ wb[1].cols = <<10, 50>>

\* ---------------------------------------------------------------------
\* C26: whenever the page is in status "done" with a download set, a file
\* is selected and the download, blob and name, was made from the file and
\* the mode that are selected now.
\* ---------------------------------------------------------------------
C26_DownloadIsOfSelection ==
    (status = "done" /\ downloadUrl # Null) =>
        /\ file # Null
        /\ downloadUrl[1].file = file[1]
        /\ downloadUrl[1].mode = mode
        /\ downloadName = DownloadName(mode, fileName)

\* ---------------------------------------------------------------------
\* C27: at most one call of convert is in flight at any time.
\* ---------------------------------------------------------------------
C27_OneConversionInFlight == Len(calls) <= 1

\* ---------------------------------------------------------------------
\* C28 (as stated): a fragment of a page is placed by assignCol in the
\* column that absorbed its x in detectColumns: the right-most column
\* whose representative is at most x.
\* ---------------------------------------------------------------------
\* the 1-based column that absorbed xv
Absorbing(xv) == MaxOf({c \in 1..Len(cols) : cols[c] <= xv})

C28_AssignedToAbsorbingColumn ==
    pc = "assignFragment" => best + 1 = Absorbing(x)

\* ---------------------------------------------------------------------
\* C28 (amended): a fragment of a page is placed by assignCol in the
\* column whose representative is nearest to its x, the leftmost on a
\* tie; this is the column that absorbed its x, or the next column to the
\* right when x is nearer to that one's representative.
\* ---------------------------------------------------------------------
C28_AssignedToNearestColumn ==
    pc = "assignFragment" =>
        LET a == Absorbing(x) IN
        /\ best + 1 = NearestColumn(x)
        /\ best + 1 \in {a, a + 1}
        /\ best + 1 = a + 1 <=>
               (a < Len(cols) /\ cols[a + 1] - x < x - cols[a])

\* x = 30 was absorbed by the column of 10 and is placed in that of 31
C28_Witness ==
    /\ pc = "assignFragment"
    /\ cols = <<10, 31>>
    /\ x = 30
    /\ Absorbing(x) = 1
    /\ best = 1

\* ---------------------------------------------------------------------
\* C29: for a page of fragments (texts not blank) the filter of blank rows
\* drops nothing: the grid has exactly one row for each line returned by
\* groupIntoLines(page, 8), in line order.
\* ---------------------------------------------------------------------
\* the characters of the texts of a line or of the cells of a row that are
\* the letter ch, counted
Ink(texts, ch) ==
    LET all == Flatten(texts)
    IN  Cardinality({i \in 1..Len(all) : all[i] = ch})

C29_OneRowPerLine ==
    (GridBuilt /\ Fragments(items)) =>
        /\ lines = groupIntoLines(items, 8)
        /\ Len(grid) = Len(lines)
        /\ \A r \in 1..Len(lines) :
              \A ch \in {"A", "B"} : Ink(grid[r], ch) = Ink(Strs(lines[r]), ch)

\* two lines with different texts, each with an empty cell in its row
C29_Witness ==
    /\ GridBuilt
    /\ Fragments(items)
    /\ Len(lines) = 2
    /\ Len(cols) = 2
    /\ Len(grid) = 2
    /\ grid[1] = <<<<>>, <<"B">>>>
    /\ grid[2] = <<<<"A">>, <<>>>>

\* ---------------------------------------------------------------------
\* C30: for a page of fragments (texts not blank) every column of the grid
\* has a cell that is not empty: each column representative is the x of a
\* fragment of the page, and the text of that fragment is in a cell of
\* that very column.
\* ---------------------------------------------------------------------
C30_NoEmptyColumn ==
    (GridBuilt /\ Fragments(items)) =>
        \A c \in 1..Len(cols) :
            /\ \E r \in 1..Len(grid) : grid[r][c] # <<>>
            /\ \E r \in 1..Len(lines) :
                  \E i \in 1..Len(lines[r]) :
                      /\ lines[r][i].x = cols[c]
                      /\ r <= Len(grid)
                      /\ Ink(<<grid[r][c]>>, lines[r][i].str[1]) >= 1

\* two columns; the cell of the second holds the fragment at its
\* representative 31 and the fragment at 30
C30_Witness ==
    /\ GridBuilt
    /\ Fragments(items)
    /\ cols = <<10, 31>>
    /\ Len(grid) = 2
    /\ grid[1] = <<<<"A">>, <<>>>>
    /\ grid[2] = <<<<>>, <<"A", " ", "B">>>>

====
